---- MODULE Spec2Model ----
(***************************************************************************)
(* Toxic comment classifier: the text-to-score inference pipeline of       *)
(* models/toxic_classifier.py (ToxicClassifier, the legacy predict         *)
(* function) and the request path of app.py (load_model, main).            *)
(*                                                                         *)
(* Conventions.  A Python str is a sequence of characters, each character  *)
(* a one-element atom ("a", " ", "U+00E9").  A Python value handed to the  *)
(* classifier is a record [t |-> its type, v |-> the characters of its     *)
(* str() form].  A score is an integer number of tenths: 0 is 0.0, 1 is    *)
(* 0.1 and 10 is 1.0.  A dict is the sequence of its <<key, value>> items  *)
(* in insertion order.                                                     *)
(***************************************************************************)
EXTENDS Integers, Sequences, FiniteSets, TLC

\* ------------------------------------------------------------------ bounds

\* Longest generated input text, in characters.
MaxTextLen == 2
\* Longest list handed to batch_predict.
MaxBatch == 2
\* Random initialisations a freshly built dummy network may get: 0..MaxSeed.
MaxSeed == 1
\* Constructor runs (artifact loads) followed in one behaviour.
MaxLoads == 2

\* ------------------------------------------------------- sequences, strings

Range(s) == {s[i] : i \in 1..Len(s)}

\* 1, 2, ..., Len(s)
Indices(s) == [i \in 1..Len(s) |-> i]

\* All sequences over S of length at most n.
RECURSIVE SeqsUpTo(_, _)
SeqsUpTo(S, n) ==
    IF n = 0 THEN {<<>>}
    ELSE LET shorter == SeqsUpTo(S, n - 1)
         IN shorter \cup {Append(s, c) : s \in {t \in shorter : Len(t) = n - 1}, c \in S}

UpperLetters ==
    <<"A","B","C","D","E","F","G","H","I","J","K","L","M",
      "N","O","P","Q","R","S","T","U","V","W","X","Y","Z">>
LowerLetters ==
    <<"a","b","c","d","e","f","g","h","i","j","k","l","m",
      "n","o","p","q","r","s","t","u","v","w","x","y","z">>

\* str.lower() on one character.
LowerChar(c) ==
    IF \E i \in 1..Len(UpperLetters) : UpperLetters[i] = c
    THEN LowerLetters[CHOOSE i \in 1..Len(UpperLetters) : UpperLetters[i] = c]
    ELSE c

\* str.lower()
Lower(s) == [i \in 1..Len(s) |-> LowerChar(s[i])]

\* The characters str.strip() and str.split() treat as whitespace.
Whitespace == {" ", "\t", "\n"}

\* str.strip(): from the first to the last character that is not white space.
Strip(s) ==
    LET inked == SelectSeq(Indices(s), LAMBDA i : s[i] \notin Whitespace)
    IN IF inked = <<>> THEN <<>> ELSE SubSeq(s, inked[1], inked[Len(inked)])

\* s.split(on) for a set of separator characters, empty pieces dropped: the
\* k-th piece runs from the k-th start of a run of other characters to the
\* k-th end of one.
Split(s, on) ==
    LET n == Len(s)
        starts == SelectSeq(Indices(s),
                      LAMBDA i : s[i] \notin on /\ (i = 1 \/ s[i - 1] \in on))
        ends == SelectSeq(Indices(s),
                      LAMBDA i : s[i] \notin on /\ (i = n \/ s[i + 1] \in on))
    IN [k \in 1..Len(starts) |-> SubSeq(s, starts[k], ends[k])]

\* ----------------------------------------------------------- Python values

PyNone == [t |-> "NoneType", v |-> <<"N","o","n","e">>]
PyStr(s) == [t |-> "str", v |-> s]
PyInt(digits) == [t |-> "int", v |-> digits]
PyList(repr) == [t |-> "list", v |-> repr]

\* bool(x): None, "", 0 and [] are falsy.
Truthy(x) ==
    CASE x.t = "NoneType" -> FALSE
      [] x.t = "str" -> x.v # <<>>
      [] x.t = "int" -> x.v # <<"0">>
      [] x.t = "list" -> x.v # <<"[", "]">>

\* isinstance(x, str)
IsStr(x) == x.t = "str"

\* Mutant: a value that is not a str is taken as the empty text.
StrEmpty(x) == <<>>

\* str(x)
Str(x) == x.v

\* ------------------------------------------------------ scores and results

\* The probabilities [0, 1], in tenths.
UnitInterval == 0..10

\* self.categories, in the order the network's output layer uses.
Categories == <<"toxic", "severe_toxic", "obscene", "threat", "insult", "identity_hate">>

\* config.TOXICITY_CATEGORIES
TOXICITY_CATEGORIES ==
    <<"toxic", "severe_toxic", "obscene", "threat", "insult", "identity_hate">>

\* config.MODEL_CONFIG: the entries the classifier's fields go with (the
\* threshold in tenths).
MODEL_CONFIG == [max_features |-> 20000, max_length |-> 100, confidence_threshold |-> 5]

\* self.max_features and self.max_len as __init__ sets them.
MaxFeatures == 20000
MaxLen == 100

\* d[k] = v on a dict held as its items in insertion order.
DictSet(d, k, v) ==
    IF \E i \in 1..Len(d) : d[i][1] = k
    THEN [i \in 1..Len(d) |-> IF d[i][1] = k THEN <<k, v>> ELSE d[i]]
    ELSE Append(d, <<k, v>>)

\* {category: value for category in cats}
RECURSIVE DictOfConst(_, _)
DictOfConst(cats, value) ==
    IF cats = <<>> THEN <<>>
    ELSE DictSet(DictOfConst(SubSeq(cats, 1, Len(cats) - 1), value), cats[Len(cats)], value)

Keys(d) == {d[i][1] : i \in 1..Len(d)}
Values(d) == {d[i][2] : i \in 1..Len(d)}
KeyList(d) == [i \in 1..Len(d) |-> d[i][1]]

\* ------------------------------------------------------------- artifacts

\* What a file of resources/ can be: not there, there but failing to load,
\* or loadable.
FileStates == {"absent", "corrupt", "ok"}

\* Output widths a stored architecture may declare (the trained one has 6).
ArchWidths == {5, 6, 7}

\* The resources/ directory: model.json, weights.h5, tokenizer.pickle.
Artifacts ==
    {[arch |-> a, width |-> w, weights |-> ws, tok |-> t] :
        a \in FileStates, w \in ArchWidths, ws \in FileStates, t \in FileStates}

\* One resources/ directory per observable case: the stored width only shows
\* when the stored network loads.
DistinctArtifacts ==
    {f \in Artifacts : (f.arch # "ok" \/ f.weights # "ok") => f.width = Len(Categories)}

NoneObj == [kind |-> "None"]

\* -------------------------------------------------------------- tokenizer

\* The Keras Tokenizer's default filters, each replaced by the split character
\* (the grave accent is written as its code point).
TokenizerFilters ==
    {"!", "\"", "#", "$", "%", "&", "(", ")", "*", "+", ",", "-", ".", "/", ":", ";",
     "<", "=", ">", "?", "@", "[", "\\", "]", "^", "_", "U+0060", "{", "|", "}", "~",
     "\t", "\n"}

\* text_to_word_sequence: lower, filters to spaces, split on the space.
TextToWordSequence(s) ==
    Split([i \in 1..Len(s) |->
              IF LowerChar(s[i]) \in TokenizerFilters THEN " " ELSE LowerChar(s[i])],
          {" "})

\* sample_texts of _create_dummy_tokenizer
SampleTexts == <<
    <<"t","h","i","s"," ","i","s"," ","a"," ","s","a","m","p","l","e"," ","t","e","x","t">>,
    <<"a","n","o","t","h","e","r"," ","s","a","m","p","l","e"," ","f","o","r"," ","t","o","k","e","n","i","z","e","r">>,
    <<"t","o","x","i","c"," ","b","a","d"," ","w","o","r","d","s"," ","h","e","r","e">>,
    <<"c","l","e","a","n"," ","g","o","o","d"," ","c","o","n","t","e","n","t">> >>

RECURSIVE Flatten(_)
Flatten(ss) == IF ss = <<>> THEN <<>> ELSE Head(ss) \o Flatten(Tail(ss))

\* Occurrences of w in the word list ws.
Count(ws, w) == Cardinality({i \in 1..Len(ws) : ws[i] = w})
\* Where w first occurs in ws.
FirstAt(ws, w) == CHOOSE i \in 1..Len(ws) : ws[i] = w /\ \A j \in 1..(i - 1) : ws[j] # w

\* Tokenizer.fit_on_texts with an oov_token: the oov token gets index 1, then
\* the words by falling count, ties in order of first appearance.
FitOnTexts(texts) ==
    LET ws == Flatten([i \in 1..Len(texts) |-> TextToWordSequence(texts[i])])
        Before(u, w) == \/ Count(ws, u) > Count(ws, w)
                        \/ Count(ws, u) = Count(ws, w) /\ FirstAt(ws, u) < FirstAt(ws, w)
    IN [w \in Range(ws) |-> 2 + Cardinality({u \in Range(ws) : Before(u, w)})]

\* The tokenizer _create_dummy_tokenizer builds.
DummyTokenizer ==
    [kind |-> "dummy", word_index |-> FitOnTexts(SampleTexts), oov |-> 1,
     num_words |-> MaxFeatures]

\* The vocabulary tokenizer.pickle holds when it loads: fit offline, no
\* out-of-vocabulary token (oov 0: unknown words are dropped).
TrainedWordIndex ==
    (<<"a">> :> 1) @@ (<<"b">> :> 2) @@ (<<"i","s">> :> 3) @@ (<<"b","a">> :> 4)
PickledTokenizer ==
    [kind |-> "real", word_index |-> TrainedWordIndex, oov |-> 0,
     num_words |-> MaxFeatures]

\* Tokenizer.texts_to_sequences on one text: a known word gives its index
\* (the oov index when the index is not below num_words), an unknown word the
\* oov index; without an oov token (oov 0) such words are dropped.
WordId(tok, w) ==
    IF w \in DOMAIN tok.word_index /\ tok.word_index[w] < tok.num_words
    THEN tok.word_index[w]
    ELSE tok.oov
WordsToIds(tok, ws) ==
    SelectSeq([i \in 1..Len(ws) |-> WordId(tok, ws[i])], LAMBDA id : id # 0)
TextsToSequences(tok, s) == WordsToIds(tok, TextToWordSequence(s))

\* Mutant: padding="post" and truncating="post".
PadSequencesPost(ids, maxlen) ==
    IF Len(ids) >= maxlen
    THEN SubSeq(ids, 1, maxlen)
    ELSE ids \o [i \in 1..(maxlen - Len(ids)) |-> 0]

\* pad_sequences(seqs, maxlen): "pre" padding with 0, "pre" truncation.
PadSequences(ids, maxlen) ==
    IF Len(ids) >= maxlen
    THEN SubSeq(ids, Len(ids) - maxlen + 1, Len(ids))
    ELSE [i \in 1..(maxlen - Len(ids)) |-> 0] \o ids

\* ------------------------------------------------------------- classifier

\* Mutant: the labels in alphabetical order.
InitFieldsAlphabetical ==
    [model_path |-> "resources/", model |-> NoneObj, tokenizer |-> NoneObj,
     max_features |-> MaxFeatures, max_len |-> MaxLen,
     categories |-> <<"identity_hate", "insult", "obscene", "severe_toxic", "threat",
                      "toxic">>]

\* ToxicClassifier.__init__, before the two loads: the fields it assigns.
InitFields ==
    [model_path |-> "resources/", model |-> NoneObj, tokenizer |-> NoneObj,
     max_features |-> MaxFeatures, max_len |-> MaxLen, categories |-> Categories]

\* Mutant: the except branch of _load_model builds no network.
CreateDummyModelSkipped(c, seed) == c

\* _create_dummy_model: an untrained network, six sigmoid outputs, weights
\* from the random initialisation `seed`.
CreateDummyModel(c, seed) ==
    [c EXCEPT !.model = [kind |-> "dummy", seed |-> seed, width |-> Len(Categories)]]

\* Mutant: a weights file that fails to load goes unnoticed.
LoadModelErrorWeightsUnchecked(f) ==
    CASE f.arch = "absent" -> "FileNotFoundError"
      [] f.weights = "absent" -> "FileNotFoundError"
      [] f.arch = "corrupt" -> "ValueError"
      [] OTHER -> ""

\* What the try block of _load_model raises on the files f ("" when nothing).
LoadModelError(f) ==
    CASE f.arch = "absent" -> "FileNotFoundError"
      [] f.weights = "absent" -> "FileNotFoundError"
      [] f.arch = "corrupt" -> "ValueError"
      [] f.weights = "corrupt" -> "OSError"
      [] OTHER -> ""

\* Mutant: the except branch only logs, no dummy network is built.
LoadModelNoFallback(c, f, seed) ==
    IF LoadModelError(f) = ""
    THEN [c EXCEPT !.model = [kind |-> "real", seed |-> 0, width |-> f.width]]
    ELSE c

\* _load_model: the stored network (its weights are the one stored set, seed 0),
\* or the dummy network on any exception.
LoadModel(c, f, seed) ==
    IF LoadModelError(f) = ""
    THEN [c EXCEPT !.model = [kind |-> "real", seed |-> 0, width |-> f.width]]
    ELSE CreateDummyModel(c, seed)

\* _create_dummy_tokenizer
CreateDummyTokenizer(c) == [c EXCEPT !.tokenizer = DummyTokenizer]

\* _load_tokenizer: the pickled tokenizer, or the dummy one when the file is
\* absent or unpickling raises.
LoadTokenizer(c, f) ==
    IF f.tok = "ok" THEN [c EXCEPT !.tokenizer = PickledTokenizer]
    ELSE CreateDummyTokenizer(c)

\* ToxicClassifier(): the whole constructor.
Construct(f, seed) == LoadTokenizer(LoadModel(InitFields, f, seed), f)

\* No encoding was made.
NoEnc == [text |-> <<>>, ids |-> <<>>, padded |-> <<>>]

\* The steps of ToxicClassifier.preprocess_text: str(), lower().strip() (the
\* string the tokenizer gets), the tokenizer's ids, the ids padded to max_len.
Encode(c, text) ==
    LET s == IF IsStr(text) THEN text.v ELSE Str(text)
        cleaned == Strip(Lower(s))
        ids == TextsToSequences(c.tokenizer, cleaned)
    IN [text |-> cleaned, ids |-> ids, padded |-> PadSequences(ids, c.max_len)]

\* ToxicClassifier.preprocess_text: padded_sequences[0].
PreprocessText(c, text) == Encode(c, text).padded

\* What can go wrong inside one predict call, from outside the code: nothing,
\* an exception while encoding, an exception in the forward pass.
Faults == {"none", "encode", "forward"}

\* model.predict(x, verbose=0)[0]: the network's outputs for the input row x,
\* a fixed function of the weights and of x, each output a sigmoid value.
Forward(m, x) ==
    LET digest == Cardinality({i \in 1..Len(x) : x[i] # 0}) + x[1] + x[Len(x)]
    IN [i \in 1..m.width |-> (3 * m.seed + i * (1 + digest)) % 11]

\* The draws random.uniform(0.1, 0.9) may give, one per category.
UniformDraws == [1..Len(Categories) -> {1, 5, 9}]
NoDraw == [i \in 1..Len(Categories) |-> 1]

\* The score of the all-zero result and of the exception fallback.
ZeroScore == 0
FallbackScore == 1

\* The dict a return statement of predict builds from per-position scores.
RECURSIVE DictOfScores(_, _)
DictOfScores(cats, scores) ==
    IF cats = <<>> THEN <<>>
    ELSE DictSet(DictOfScores(SubSeq(cats, 1, Len(cats) - 1), scores),
                 cats[Len(cats)], scores[Len(cats)])

\* A call that came back with a value / that raised.
Returned(value, path, tokenize, forward) ==
    [outcome |-> "returned", exc |-> "", value |-> value, path |-> path,
     tokenize |-> tokenize, forward |-> forward, enc |-> NoEnc]
Raised(exc) ==
    [outcome |-> "raised", exc |-> exc, value |-> <<>>, path |-> "raise",
     tokenize |-> 0, forward |-> 0, enc |-> NoEnc]

\* Mutant: the except branch returns the blank-input scores.
PredictFallbackZero(c, tokenize, forward) ==
    Returned(DictOfConst(c.categories, ZeroScore), "fallback", tokenize, forward)

\* Mutant: the except branch runs the forward pass once more before it gives
\* up.
PredictFallbackRetry(c, tokenize, forward) ==
    Returned(DictOfConst(c.categories, FallbackScore), "fallback", tokenize, 2 * forward)

\* The except branch of predict: 0.1 for every category.
PredictFallback(c, tokenize, forward) ==
    Returned(DictOfConst(c.categories, FallbackScore), "fallback", tokenize, forward)

\* The blank-input return of predict: 0.0 for every category.
PredictBlank(c) == Returned(DictOfConst(c.categories, ZeroScore), "blank", 0, 0)

\* Mutant: the categories zipped with the outputs, so a short output row gives a
\* short mapping instead of an IndexError.
PredictNetworkZip(c, x) ==
    LET predictions == Forward(c.model, x)
        n == IF Len(predictions) < Len(c.categories) THEN Len(predictions)
             ELSE Len(c.categories)
    IN Returned(DictOfScores(SubSeq(c.categories, 1, n), predictions), "network", 1, 1)

\* Mutant: the outputs are cut at 0.5 to 0.0 or 1.0 before they are stored.
PredictNetworkThresholded(c, x) ==
    LET predictions == Forward(c.model, x)
        cut == [i \in 1..Len(predictions) |-> IF predictions[i] >= 5 THEN 10 ELSE 0]
    IN IF Len(predictions) < Len(c.categories)
       THEN PredictFallback(c, 1, 1)
       ELSE Returned(DictOfScores(c.categories, cut), "network", 1, 1)

\* The loop over enumerate(self.categories): IndexError when the network has
\* fewer outputs than categories.
PredictNetwork(c, x) ==
    LET predictions == Forward(c.model, x)
    IN IF Len(predictions) < Len(c.categories)
       THEN PredictFallback(c, 1, 1)
       ELSE Returned(DictOfScores(c.categories, predictions), "network", 1, 1)

\* Mutant: no except branch, what is raised escapes.
PredictTryUncaught(c, text, fault, draw) ==
    IF fault = "encode" \/ c.tokenizer = NoneObj THEN Raised("RuntimeError")
    ELSE LET r == IF c.model = NoneObj
                  THEN Returned(DictOfScores(c.categories, draw), "random", 1, 0)
                  ELSE IF fault = "forward" THEN Raised("RuntimeError")
                  ELSE PredictNetwork(c, PreprocessText(c, text))
         IN [r EXCEPT !.enc = Encode(c, text)]

\* The try block of predict; enc is what preprocess_text made before the
\* model was asked.
PredictTry(c, text, fault, draw) ==
    IF fault = "encode" \/ c.tokenizer = NoneObj THEN PredictFallback(c, 1, 0)
    ELSE LET r == IF c.model = NoneObj
                  THEN Returned(DictOfScores(c.categories, draw), "random", 1, 0)
                  ELSE IF fault = "forward" THEN PredictFallback(c, 1, 1)
                  ELSE PredictNetwork(c, PreprocessText(c, text))
         IN [r EXCEPT !.enc = Encode(c, text)]

\* Mutant: the guard is `if not text`, white space reaches the try block.
PredictNoStripCheck(c, text, fault, draw) ==
    IF ~Truthy(text) THEN PredictBlank(c)
    ELSE IF ~IsStr(text) THEN Raised("AttributeError")
    ELSE PredictTry(c, text, fault, draw)

\* ToxicClassifier.predict
Predict(c, text, fault, draw) ==
    IF ~Truthy(text) THEN PredictBlank(c)
    ELSE IF ~IsStr(text) THEN Raised("AttributeError")
    ELSE IF Strip(text.v) = <<>> THEN PredictBlank(c)
    ELSE PredictTry(c, text, fault, draw)

\* classifier.preprocess_text(text) called on its own: nothing catches what
\* the tokenizer raises.
PreprocessTextResult(c, text, fault) ==
    IF fault = "encode" \/ c.tokenizer = NoneObj THEN Raised("RuntimeError")
    ELSE [Returned(<<>>, "encode", 1, 0) EXCEPT !.enc = Encode(c, text)]

\* ToxicClassifier.batch_predict: predict on each text in turn, the results
\* appended; an exception of predict ends the loop and escapes.
RECURSIVE BatchLoop(_, _, _, _)
BatchLoop(c, texts, faults, results) ==
    IF texts = <<>> THEN Returned(results, "batch", 0, 0)
    ELSE LET r == Predict(c, Head(texts), Head(faults), NoDraw)
         IN IF r.outcome = "raised" THEN r
            ELSE BatchLoop(c, Tail(texts), Tail(faults), Append(results, r.value))

\* Mutant: each result is put in front of the list, the answers come reversed.
BatchPredictReversed(c, texts, faults) ==
    LET r == BatchLoop(c, texts, faults, <<>>)
    IN IF r.outcome = "raised" THEN r
       ELSE [r EXCEPT !.value = [i \in 1..Len(r.value) |-> r.value[Len(r.value) + 1 - i]]]

BatchPredict(c, texts, faults) == BatchLoop(c, texts, faults, <<>>)

\* ToxicClassifier.get_model_info; model_stats says whether model_params and
\* model_layers were added.
GetModelInfoDict(c) ==
    [categories |-> c.categories,
     max_features |-> c.max_features,
     max_length |-> c.max_len,
     model_loaded |-> c.model # NoneObj,
     tokenizer_loaded |-> c.tokenizer # NoneObj,
     model_stats |-> c.model # NoneObj]
GetModelInfo(c) == Returned(GetModelInfoDict(c), "info", 0, 0)

\* Mutant: the tokenizer is fit on the texts of each call, as fit_on_texts
\* would do.
AfterCallFit(c, texts) ==
    [c EXCEPT !.tokenizer.word_index =
                  FitOnTexts(SampleTexts \o [i \in 1..Len(texts) |-> texts[i].v])]

\* The classifier after preprocess_text, predict, batch_predict or
\* get_model_info was called with the texts: none of them assigns an
\* attribute of self; texts_to_sequences and model.predict read the
\* vocabulary and the weights.
AfterCall(c, texts) == c

\* f"{score:.3f}" for a score in tenths: the units digit, the point, three
\* decimals.
DigitChars == <<"0", "1", "2", "3", "4", "5", "6", "7", "8", "9">>
Format3f(score) ==
    <<DigitChars[(score \div 10) + 1], ".", DigitChars[(score % 10) + 1], "0", "0">>

\* Mutant: the scores are listed from the highest to the lowest.
LegacyListsRanked(d) ==
    LET rank(i) == 1 + Cardinality({j \in 1..Len(d) :
                           d[j][2] > d[i][2] \/ (d[j][2] = d[i][2] /\ j < i)})
        at(k) == CHOOSE i \in 1..Len(d) : rank(i) = k
    IN [predictions_list |-> [i \in 1..Len(d) |-> <<d[i][1], ":", " ">> \o Format3f(d[i][2])],
        scores_list |-> [k \in 1..Len(d) |-> d[at(k)][2]],
        categories_list |-> KeyList(d)]

\* The three lists the module-level predict(text) reads off the dict d; a
\* text of predictions_list is the category's name, kept whole, then the
\* characters of ": " and of the score.
LegacyLists(d) ==
    [predictions_list |-> [i \in 1..Len(d) |-> <<d[i][1], ":", " ">> \o Format3f(d[i][2])],
     scores_list |-> [i \in 1..Len(d) |-> d[i][2]],
     categories_list |-> KeyList(d)]

\* The module-level predict(text): a new classifier, its predict (value is
\* predictions_dict), the three lists.
LegacyPredict(f, seed, text, fault) ==
    LET r == Predict(Construct(f, seed), text, fault, NoDraw)
    IN IF r.outcome = "raised" THEN r
       ELSE [r EXCEPT !.path = "legacy"] @@ [lists |-> LegacyLists(r.value)]

\* main() after classifier.predict: the text is flagged toxic when the highest
\* score reaches the confidence threshold.
RECURSIVE SeqMax(_)
SeqMax(s) ==
    IF Len(s) = 1 THEN s[1]
    ELSE LET m == SeqMax(Tail(s)) IN IF Head(s) >= m THEN Head(s) ELSE m
Flagged(predictions, threshold) ==
    SeqMax([i \in 1..Len(predictions) |-> predictions[i][2]]) >= threshold

\* ------------------------------------------------------ text preprocessing

\* The grave accent and the double quote.
Backtick == "U+0060"
DoubleQuote == "\""

\* The element of a one-element set; in {e : x \in {v}} the value v is worked
\* out once, however often e names it.
Only(S) == CHOOSE x \in S : TRUE

\* s[i], or no character outside s.
At(s, i) == IF i \in 1..Len(s) THEN s[i] ELSE ""

\* sep.join(words)
Join(words, sep) ==
    Only({Flatten([k \in 1..Len(w) |-> IF k = 1 THEN w[k] ELSE <<sep>> \o w[k]])
          : w \in {words}})

\* Each character of s replaced by the piece given for its place: re.sub with a
\* pattern whose matches are told apart place by place.
Rewrite(s, pieces) ==
    IF \A i \in 1..Len(s) : pieces[i] = <<s[i]>> THEN s
    ELSE Flatten(pieces)

\* How many copies of c stand directly before place i of s.
RunBefore(s, i, c) == Cardinality({j \in 1..(i - 1) : \A k \in j..(i - 1) : s[k] = c})

\* re.sub(cc, " cc ", s) for a doubled character c: the pairs of each run of
\* c, from the left, get a space on both sides.
PadPairs(text, c) ==
    Only({Rewrite(t, [i \in 1..Len(t) |->
              IF t[i] # c THEN <<t[i]>>
              ELSE IF RunBefore(t, i, c) % 2 = 1 THEN <<c, " ">>
              ELSE IF At(t, i + 1) = c THEN <<" ", c>>
              ELSE <<c>>])
          : t \in {text}})

\* re.sub("[...]", " \g<0> ", s): each character of the class gets a space on
\* both sides.
PadEach(text, class) ==
    Only({Rewrite(t, [i \in 1..Len(t) |->
              IF t[i] \in class THEN <<" ", t[i], " ">> ELSE <<t[i]>>])
          : t \in {text}})

\* A match of http\S+ or www\S+ starts at place j (https\S+ starts with a
\* match of http\S+).
StartsUrl(s, j) ==
    \/ /\ j + 4 <= Len(s)
       /\ SubSeq(s, j, j + 3) = <<"h", "t", "t", "p">>
       /\ s[j + 4] \notin Whitespace
    \/ /\ j + 3 <= Len(s)
       /\ SubSeq(s, j, j + 2) = <<"w", "w", "w">>
       /\ s[j + 3] \notin Whitespace

\* re.sub(r'http\S+|www\S+|https\S+', '', text): a match runs to the end of
\* its run of non-white-space characters, so a character goes when a match
\* starts at or before it in its run.
RemoveUrls(text) ==
    Only({IF \A j \in 1..Len(s) : ~StartsUrl(s, j) THEN s
          ELSE LET gone(i) == \E j \in 1..i : /\ \A k \in j..i : s[k] \notin Whitespace
                                              /\ StartsUrl(s, j)
                   kept == SelectSeq(Indices(s), LAMBDA i : ~gone(i))
               IN [k \in 1..Len(kept) |-> s[kept[k]]]
          : s \in {text}})

\* re.sub(r'[^a-zA-Z\s]', '', text)
RemoveSpecialChars(s) ==
    SelectSeq(s, LAMBDA c : c \in Range(UpperLetters) \cup Range(LowerLetters) \cup Whitespace)

\* ' '.join(text.split())
CollapseWhitespace(text) == Only({Join(Split(s, Whitespace), " ") : s \in {text}})

Digits == {"0", "1", "2", "3", "4", "5", "6", "7", "8", "9"}

\* The starting-quote rules of NLTK's word tokenizer: runs of grave accents
\* set apart, a leading double quote opened, pairs of grave accents set
\* apart, and a double quote or two apostrophes after a space or an opening
\* bracket turned into two grave accents.
StartingQuotes(text) ==
    LET openers == {" ", "(", "[", "{", "<"}
        padded == Only({Rewrite(t, [i \in 1..Len(t) |->
                      IF t[i] # Backtick THEN <<t[i]>>
                      ELSE (IF At(t, i - 1) # Backtick THEN <<" ">> ELSE <<>>)
                           \o <<Backtick>>
                           \o (IF At(t, i + 1) # Backtick THEN <<" ">> ELSE <<>>)])
                  : t \in {text}})
        opened == Only({Rewrite(t, [i \in 1..Len(t) |->
                      IF i = 1 /\ t[i] = DoubleQuote THEN <<Backtick, Backtick>>
                      ELSE <<t[i]>>])
                  : t \in {padded}})
    IN Only({Rewrite(t, [i \in 1..Len(t) |->
                 IF t[i] = DoubleQuote /\ At(t, i - 1) \in openers
                 THEN <<" ", Backtick, Backtick, " ">>
                 ELSE IF t[i] = "'" /\ At(t, i + 1) = "'" /\ At(t, i - 1) \in openers
                 THEN <<" ", Backtick, Backtick, " ">>
                 ELSE IF t[i] = "'" /\ At(t, i - 1) = "'" /\ At(t, i - 2) \in openers
                 THEN <<>>
                 ELSE <<t[i]>>])
             : t \in {PadPairs(opened, Backtick)}})

\* The punctuation rules of NLTK's word tokenizer: the sentence's final
\* period, colons and commas not followed by a digit, runs of periods, and
\* the marks that are always set apart.
Punctuation(text) ==
    LET closers == {"]", ")", "}", ">", DoubleQuote, "'"}
        seps == {":", ","}
        final(t, i) ==
            /\ t[i] = "."
            /\ At(t, i - 1) \notin {".", ""}
            /\ \E m \in i..Len(t) : /\ \A k \in (i + 1)..m : t[k] \in closers
                                    /\ \A k \in (m + 1)..Len(t) : t[k] \in Whitespace
        sepsBefore(t, i) ==
            Cardinality({j \in 1..(i - 1) : \A k \in j..(i - 1) : t[k] \in seps})
        period == Only({Rewrite(t, [i \in 1..Len(t) |->
                      IF final(t, i) THEN <<" ", ".", " ">> ELSE <<t[i]>>])
                  : t \in {text}})
        colon == Only({Rewrite(t, [i \in 1..Len(t) |->
                     IF /\ t[i] \in seps
                        /\ sepsBefore(t, i) % 2 = 0
                        /\ At(t, i + 1) \notin Digits \cup {""}
                     THEN <<" ", t[i], " ">>
                     ELSE <<t[i]>>])
                 : t \in {period}})
        ending == Only({Rewrite(t, [i \in 1..Len(t) |->
                      IF i = Len(t) /\ t[i] \in seps THEN <<" ", t[i], " ">> ELSE <<t[i]>>])
                  : t \in {colon}})
        dots == Only({Rewrite(t, [i \in 1..Len(t) |->
                    IF t[i] = "." /\ (At(t, i - 1) = "." \/ At(t, i + 1) = ".")
                    THEN (IF At(t, i - 1) # "." THEN <<" ">> ELSE <<>>)
                         \o <<".">>
                         \o (IF At(t, i + 1) # "." THEN <<" ">> ELSE <<>>)
                    ELSE <<t[i]>>])
                : t \in {ending}})
        quote == Only({Rewrite(t, [i \in 1..Len(t) |->
                     IF t[i] = "'" /\ At(t, i + 1) = " " /\ At(t, i - 1) \notin {"'", ""}
                     THEN <<" ", "'">>
                     ELSE <<t[i]>>])
                 : t \in {PadEach(dots, {";", "@", "#", "$", "%", "&", "?", "!"})}})
    IN PadEach(quote, {"*"})

\* The ending-quote rules: two apostrophes set apart, a double quote closed
\* as two apostrophes.
EndingQuotes(text) ==
    Only({Rewrite(t, [i \in 1..Len(t) |->
              IF t[i] = DoubleQuote THEN <<" ", "'", "'", " ">> ELSE <<t[i]>>])
          : t \in {PadPairs(text, "'")}})

\* nltk.word_tokenize(text) on one sentence of letters, digits, white space,
\* brackets, quotes and punctuation marks (no apostrophe next to a letter, no
\* word of the contraction lists): the rules in their order, then split().
WordTokenize(s) ==
    LET quotes == StartingQuotes(s)
        punct == Punctuation(quotes)
        parens == PadEach(punct, {"[", "]", "(", ")", "{", "}", "<", ">"})
        dashes == PadPairs(parens, "-")
    IN Only({Split(t, Whitespace) : t \in {EndingQuotes(<<" ">> \o dashes \o <<" ">>)}})

\* string.punctuation
StringPunctuation ==
    <<"!", DoubleQuote, "#", "$", "%", "&", "'", "(", ")", "*", "+", ",", "-", ".", "/",
      ":", ";", "<", "=", ">", "?", "@", "[", "\\", "]", "^", "_", Backtick, "{", "|",
      "}", "~">>

\* sub in s, for strs
Contains(s, sub) ==
    \E i \in 0..(Len(s) - Len(sub)) : SubSeq(s, i + 1, i + Len(sub)) = sub

\* The words of stopwords.words('english') that the texts can hold.
StopWords ==
    {<<"a">>, <<"i", "s">>, <<"t">>, <<"n", "o", "w">>, <<"t", "h", "i", "s">>,
     <<"f", "o", "r">>}

\* PorterStemmer().stem(word): lower case, and for a word of more than two
\* letters a final s that is not part of ss goes (the words of the texts meet
\* no other rule).
Stem(word) ==
    LET w == Lower(word)
        n == Len(w)
    IN IF n > 2 /\ w[n] = "s" /\ w[n - 1] # "s" THEN SubSeq(w, 1, n - 1) ELSE w

\* What NLTK's punkt data can be, and the token at which the stemmer raises
\* (0: at none).
PunktStates == {"ok", "missing"}
StemFaults == 0..2

\* Mutant: the tokens are stemmed in place, one by one, so the ones before a
\* failure stay stemmed.
StemAllInPlace(tokens, stemfault) ==
    Only({[k \in 1..Len(ts) |-> IF stemfault = 0 \/ k < stemfault THEN Stem(ts[k]) ELSE ts[k]]
          : ts \in {tokens}})

\* tokens = [self.stemmer.stem(token) for token in tokens] inside try/except:
\* the assignment happens only when no stem() call raised.
StemAll(tokens, stemfault) ==
    Only({IF stemfault \in 1..Len(ts) THEN ts ELSE [k \in 1..Len(ts) |-> Stem(ts[k])]
          : ts \in {tokens}})

\* word_tokenize(text), or text.split() when it raises (its punkt data is
\* missing).
Tokenize(punkt, s) == IF punkt = "ok" THEN WordTokenize(s) ELSE Split(s, Whitespace)

\* TextPreprocessor(...): the six options.
Options(punctuation, stops, lower, urls, special, stemming) ==
    [remove_punctuation |-> punctuation, remove_stopwords |-> stops, lowercase |-> lower,
     remove_urls |-> urls, remove_special_chars |-> special, stemming |-> stemming]

\* _default_preprocessor, the production configuration.
DefaultPreprocessor == Options(FALSE, FALSE, TRUE, TRUE, FALSE, FALSE)
\* TextPreprocessor(): the constructor's defaults.
ConstructorDefaults == Options(TRUE, FALSE, TRUE, TRUE, TRUE, FALSE)
\* Case folding and white-space collapse only.
LowerCollapse == Options(FALSE, FALSE, TRUE, FALSE, FALSE, FALSE)

\* The configurations followed.
Preprocessors ==
    {DefaultPreprocessor, ConstructorDefaults, LowerCollapse,
     Options(TRUE, FALSE, TRUE, TRUE, TRUE, TRUE),
     Options(TRUE, TRUE, TRUE, TRUE, TRUE, FALSE),
     Options(TRUE, FALSE, TRUE, FALSE, FALSE, FALSE),
     Options(FALSE, FALSE, FALSE, FALSE, FALSE, FALSE)}

\* No cleaning was done.
NoClean ==
    [fn |-> "none", options |-> Options(FALSE, FALSE, FALSE, FALSE, FALSE, FALSE),
     punkt |-> "ok", stemfault |-> 0, pass |-> 0, normalized |-> <<>>, tokens |-> <<>>,
     filtered |-> <<>>, stemmed |-> <<>>, out |-> <<>>]

\* TextPreprocessor.clean_text, step by step: the text after white-space
\* collapse, the tokens, the tokens after the stopword and punctuation
\* filters, the tokens after stemming, the str returned.
CleanText(p, punkt, stemfault, text) ==
    LET s0 == IF IsStr(text) THEN text.v ELSE Str(text)
        s1 == IF p.lowercase THEN Lower(s0) ELSE s0
        s2 == IF p.remove_urls THEN RemoveUrls(s1) ELSE s1
        s3 == IF p.remove_special_chars THEN RemoveSpecialChars(s2) ELSE s2
        normalized == CollapseWhitespace(s3)
        tokens == Tokenize(punkt, normalized)
        t1 == IF p.remove_stopwords
              THEN SelectSeq(tokens, LAMBDA w : Lower(w) \notin StopWords)
              ELSE tokens
        filtered == IF p.remove_punctuation
                    THEN SelectSeq(t1, LAMBDA w : ~Contains(StringPunctuation, w))
                    ELSE t1
        stemmed == IF p.stemming THEN StemAll(filtered, stemfault) ELSE filtered
    IN [fn |-> "clean_text", options |-> p, punkt |-> punkt, stemfault |-> stemfault,
        pass |-> 1, normalized |-> normalized, tokens |-> tokens, filtered |-> filtered,
        stemmed |-> stemmed, out |-> Only({Strip(j) : j \in {Join(stemmed, " ")}})]

\* preprocess_text(text) with no preprocessor given: the default one.
UtilPreprocessText(punkt, text) ==
    [CleanText(DefaultPreprocessor, punkt, 0, text) EXCEPT !.fn = "preprocess_text"]

\* Mutant: the URLs are cut out before the text is lower-cased.
BasicCleanUrlsFirst(text) ==
    LET s0 == IF IsStr(text) THEN text.v ELSE Str(text)
        out == CollapseWhitespace(Only({Strip(l) : l \in {Lower(RemoveUrls(s0))}}))
    IN [NoClean EXCEPT !.fn = "basic_clean", !.pass = 1, !.normalized = out, !.out = out]

\* basic_clean(text)
BasicClean(text) ==
    LET s0 == IF IsStr(text) THEN text.v ELSE Str(text)
        out == CollapseWhitespace(RemoveUrls(Only({Strip(l) : l \in {Lower(s0)}})))
    IN [NoClean EXCEPT !.fn = "basic_clean", !.pass = 1, !.normalized = out, !.out = out]

\* ------------------------------------------------------------------ inputs

\* Characters of the generated texts: a known word, an upper-case letter,
\* white space, punctuation.
Alphabet == {"a", "B", " ", "!"}

\* More than max_len words: "B" and then max_len times "a".
LongText ==
    [i \in 1..(2 * (MaxLen + 1)) |-> IF i = 1 THEN "B" ELSE IF i % 2 = 1 THEN "a" ELSE " "]

\* Punctuation only, white space only, a non-ASCII word, a sentence, a text
\* with a URL in it, a very long text.
ChosenStrings ==
    {<<"!", "?">>, <<" ", "\t", "\n">>, <<"U+00E9", "t", "U+00E9">>,
     <<"a", " ", "i", "s", " ", "B", "!">>,
     <<"a", " ", "h", "t", "t", "p", ":", "/", "/", "B">>, LongText}

Strings == SeqsUpTo(Alphabet, MaxTextLen) \cup ChosenStrings

\* None, 0, 5, [] and ['a'].
NonStrings ==
    {PyNone, PyInt(<<"0">>), PyInt(<<"5">>), PyList(<<"[", "]">>),
     PyList(<<"[", "'", "a", "'", "]">>)}

Texts == {PyStr(s) : s \in Strings} \cup NonStrings

\* What the text area of the page hands to main(): a str.
PageTexts == {PyStr(<<"a">>), PyStr(<<"B", "!">>), PyStr(<<" ">>), PyStr(<<>>)}

\* The slider's confidence thresholds: 0.1 to 0.9 in steps of 0.1.
Thresholds == 1..9

\* One element of a batch, with what goes wrong while it is predicted.
BatchItems ==
    {<<PyStr(<<>>), "none">>, <<PyStr(<<"a">>), "none">>, <<PyStr(<<"B">>), "none">>,
     <<PyStr(<<"a">>), "forward">>, <<PyStr(<<"B">>), "encode">>, <<PyNone, "none">>,
     <<PyInt(<<"5">>), "none">>}
Batches == SeqsUpTo(BatchItems, MaxBatch)

\* Texts handed to the legacy predict function.
LegacyTexts == {PyStr(<<"a">>), PyStr(<<>>), PyNone, PyInt(<<"5">>)}

\* Characters of the generated texts handed to the cleaning functions.
CleanAlphabet == {"a", "B", " ", "!", DoubleQuote}

\* A sentence with a URL, URLs in upper case, a bare "http", a quoted word,
\* white space of all kinds, words with a final s and stopwords, a non-ASCII
\* word, a final period, a colon.
ChosenCleanStrings ==
    {<<"V","i","s","i","t"," ","h","t","t","p","s",":","/","/","e","x","a","m","p","l","e",
       ".","c","o","m"," ","n","o","w">>,
     <<"W", "W", "W", ".", "b", " ", "a">>,
     <<"H", "T", "T", "P", ":", "/", "/", "B">>,
     <<"h", "t", "t", "p">>,
     <<"a", " ", DoubleQuote, "B", DoubleQuote>>,
     <<" ", "a", " ", " ", "B", "\t", "\n">>,
     <<"c", "a", "t", "s", " ", "i", "s", " ", "B", "s", "s">>,
     <<"U+00E9", "t", "U+00E9">>,
     <<"a", " ", "B", ".">>,
     <<"a", ":", "B">>}

\* What the cleaning functions are called with: strs, and None, 5 and [].
CleanTexts ==
    {PyStr(s) : s \in SeqsUpTo(CleanAlphabet, MaxTextLen) \cup ChosenCleanStrings}
        \cup {PyNone, PyInt(<<"5">>), PyList(<<"[", "]">>)}

\* ------------------------------------------------------------------- state

VARIABLES
    fs,      \* the files of resources/
    clf,     \* the process's classifier object (the one load_model caches)
    cache,   \* st.cache_resource's entry for load_model: "miss" or "hit"
    pc,      \* where the process is: "idle", inside the constructor, in main()
    req,     \* the page request being served
    loads,   \* constructor runs so far, each loading the artifacts
    last,    \* the last finished call: what was called, with what, the outcome
    hist,    \* the array preprocess_text first returned for WatchedText, kept
    prev     \* how the previous predict call on WatchedText ended, kept

vars == <<fs, clf, cache, pc, req, loads, last, hist, prev>>

\* What a call that returns no model info / no legacy lists leaves there.
NoInfo ==
    [categories |-> <<>>, max_features |-> 0, max_length |-> 0, model_loaded |-> FALSE,
     tokenizer_loaded |-> FALSE, model_stats |-> FALSE]
NoLists == [predictions_list |-> <<>>, scores_list |-> <<>>, categories_list |-> <<>>]

\* The text whose encodings are compared over the calls, and no array kept.
WatchedText == PyStr(<<"a", " ", "i", "s", " ", "B", "!">>)
NoHist == <<>>

\* No predict call on WatchedText has ended yet.
NoPrev == [path |-> "none", value |-> <<>>]

\* No call has finished, or its result is gone.  arg is the text of predict,
\* args the texts of batch_predict; value is the dict predict returned, values
\* the list batch_predict returned, info what get_model_info returned and lists
\* what the legacy predict returned; enc is the encoding preprocess_text made
\* during the call, clean what the text preprocessing functions did,
\* threshold and flagged the page's confidence threshold and its banner.
NoCall ==
    [op |-> "none", arg |-> PyNone, args |-> <<>>, faults |-> <<>>, outcome |-> "none",
     exc |-> "", value |-> <<>>, values |-> <<>>, info |-> NoInfo, lists |-> NoLists,
     path |-> "none", tokenize |-> 0, forward |-> 0, enc |-> NoEnc, clean |-> NoClean,
     threshold |-> 0, flagged |-> FALSE]
NoReq == [text |-> PyStr(<<>>), threshold |-> 5]

\* The record of a finished call.
Call(op, x, faults, r, flagged) ==
    LET ok == r.outcome = "returned"
    IN [op |-> op,
        arg |-> IF op \in {"predict", "analyze", "legacy_predict", "preprocess_text"}
                THEN x ELSE PyNone,
        args |-> IF op = "batch_predict" THEN x ELSE <<>>,
        faults |-> faults, outcome |-> r.outcome, exc |-> r.exc,
        value |-> IF ok /\ op \in {"predict", "analyze", "legacy_predict"}
                  THEN r.value ELSE <<>>,
        values |-> IF ok /\ op = "batch_predict" THEN r.value ELSE <<>>,
        info |-> IF ok /\ op = "get_model_info" THEN r.value ELSE NoInfo,
        lists |-> IF ok /\ op = "legacy_predict" THEN r.lists ELSE NoLists,
        path |-> r.path, tokenize |-> r.tokenize, forward |-> r.forward,
        enc |-> IF op = "batch_predict" THEN NoEnc ELSE r.enc,
        clean |-> NoClean,
        threshold |-> 0,
        flagged |-> flagged]

Init ==
    /\ fs \in DistinctArtifacts
    /\ clf = InitFields
    /\ cache = "miss"
    /\ pc = "idle"
    /\ req = NoReq
    /\ loads = 0
    /\ last = NoCall
    /\ hist = NoHist
    /\ prev = NoPrev

\* The draw predict would use: only a classifier without a model draws.
DrawsFor(c) == IF c.model = NoneObj THEN UniformDraws ELSE {NoDraw}

\* main(): the Analyze button with non-blank text; load_model() is a cache hit
\* or starts ToxicClassifier() (lines 32-37 of the constructor).
AppLoadModel ==
    /\ pc = "idle"
    /\ last = NoCall
    /\ \E text \in PageTexts, threshold \in Thresholds :
          /\ Strip(text.v) # <<>>
          /\ req' = [text |-> text, threshold |-> threshold]
    /\ IF cache = "hit"
       THEN /\ pc' = "analyze"
            /\ UNCHANGED <<hist, prev, clf, loads>>
       ELSE /\ loads < MaxLoads
            /\ clf' = InitFields
            /\ loads' = loads + 1
            /\ pc' = "load_model"
    /\ UNCHANGED <<hist, prev, fs, cache, last>>

\* The constructor's self._load_model()
LoadModelStep ==
    /\ pc = "load_model"
    /\ \E seed \in 0..MaxSeed : clf' = LoadModel(clf, fs, seed)
    /\ pc' = "load_tokenizer"
    /\ UNCHANGED <<hist, prev, fs, cache, req, loads, last>>

\* The constructor's self._load_tokenizer(); load_model returns and its
\* result is cached.
LoadTokenizerStep ==
    /\ pc = "load_tokenizer"
    /\ clf' = LoadTokenizer(clf, fs)
    /\ cache' = "hit"
    /\ pc' = "analyze"
    /\ UNCHANGED <<hist, prev, fs, req, loads, last>>

\* main(): processed_text = preprocess_text(user_input) for the page to show,
\* classifier.predict(user_input) and the toxic / clean banner.
AppPredict ==
    /\ pc = "analyze"
    /\ \E fault \in Faults, draw \in DrawsFor(clf), punkt \in PunktStates :
          LET r == Predict(clf, req.text, fault, draw)
              shown == Call("analyze", req.text, <<fault>>, r,
                            r.outcome = "returned" /\ Flagged(r.value, req.threshold))
          IN last' = [shown EXCEPT !.clean = UtilPreprocessText(punkt, req.text),
                                   !.threshold = req.threshold]
    /\ clf' = AfterCall(clf, <<req.text>>)
    /\ pc' = "idle"
    /\ req' = NoReq
    /\ UNCHANGED <<hist, prev, fs, cache, loads>>

\* Mutant: the tokenizer is fit again on each text it is given, so the
\* vocabulary a call meets holds the words of the texts encoded before it.
PredictCallRefit ==
    /\ pc = "idle"
    /\ last = NoCall
    /\ cache = "hit"
    /\ \E text \in Texts, fault \in Faults, draw \in DrawsFor(clf) :
          LET refit == IF hist = NoHist THEN clf
                       ELSE [clf EXCEPT !.tokenizer.word_index =
                                            FitOnTexts(Append(SampleTexts, WatchedText.v))]
          IN last' = Call("predict", text, <<fault>>, Predict(refit, text, fault, draw),
                          FALSE)
    /\ UNCHANGED <<hist, prev, fs, clf, cache, pc, req, loads>>

\* classifier.predict(text) by a holder of the constructed classifier.
PredictCall ==
    /\ pc = "idle"
    /\ last = NoCall
    /\ cache = "hit"
    /\ \E text \in Texts, fault \in Faults, draw \in DrawsFor(clf) :
          /\ last' = Call("predict", text, <<fault>>, Predict(clf, text, fault, draw),
                          FALSE)
          /\ clf' = AfterCall(clf, <<text>>)
    /\ UNCHANGED <<hist, prev, fs, cache, pc, req, loads>>

\* classifier.preprocess_text(text); the caller keeps the first array it gets
\* for WatchedText.
PreprocessTextCall ==
    /\ pc = "idle"
    /\ last = NoCall
    /\ cache = "hit"
    /\ \E text \in Texts, fault \in {"none", "encode"} :
          LET r == PreprocessTextResult(clf, text, fault)
          IN /\ last' = Call("preprocess_text", text, <<fault>>, r, FALSE)
             /\ hist' = IF hist = NoHist /\ text = WatchedText /\ r.outcome = "returned"
                        THEN r.enc.padded
                        ELSE hist
             /\ clf' = AfterCall(clf, <<text>>)
    /\ UNCHANGED <<prev, fs, cache, pc, req, loads>>

\* classifier.batch_predict(texts)
BatchPredictCall ==
    /\ pc = "idle"
    /\ last = NoCall
    /\ cache = "hit"
    /\ \E batch \in Batches :
          LET texts == [i \in 1..Len(batch) |-> batch[i][1]]
              faults == [i \in 1..Len(batch) |-> batch[i][2]]
          IN /\ last' = Call("batch_predict", texts, faults,
                             BatchPredict(clf, texts, faults), FALSE)
             /\ clf' = AfterCall(clf, texts)
    /\ UNCHANGED <<hist, prev, fs, cache, pc, req, loads>>

\* classifier.get_model_info()
GetModelInfoCall ==
    /\ pc = "idle"
    /\ last = NoCall
    /\ cache = "hit"
    /\ last' = Call("get_model_info", <<>>, <<>>, GetModelInfo(clf), FALSE)
    /\ clf' = AfterCall(clf, <<>>)
    /\ UNCHANGED <<hist, prev, fs, cache, pc, req, loads>>

\* The module-level predict(text): it constructs its own classifier.
LegacyPredictCall ==
    /\ pc = "idle"
    /\ last = NoCall
    /\ loads < MaxLoads
    /\ \E text \in LegacyTexts, fault \in Faults, seed \in 0..MaxSeed :
          last' = Call("legacy_predict", text, <<fault>>,
                       LegacyPredict(fs, seed, text, fault), FALSE)
    /\ loads' = loads + 1
    /\ UNCHANGED <<hist, prev, fs, clf, cache, pc, req>>

\* The caller is done with what the call returned or raised: results are not
\* kept between calls, but for how a predict call on WatchedText ended.
Discard ==
    /\ pc = "idle"
    /\ last # NoCall
    /\ last' = NoCall
    /\ prev' = IF last.op = "predict" /\ last.arg = WatchedText
               THEN [path |-> last.path, value |-> last.value]
               ELSE prev
    /\ UNCHANGED <<hist, fs, clf, cache, pc, req, loads>>

Next ==
    \/ AppLoadModel
    \/ LoadModelStep
    \/ LoadTokenizerStep
    \/ AppPredict
    \/ PredictCall
    \/ PreprocessTextCall
    \/ BatchPredictCall
    \/ GetModelInfoCall
    \/ LegacyPredictCall
    \/ Discard

Spec == Init /\ [][Next]_vars

\* The constructor's loads run to their end: they wait for nothing.
FairSpec == Spec /\ WF_vars(LoadModelStep) /\ WF_vars(LoadTokenizerStep)

\* ------------------------------------------- the text preprocessing module

\* The record of a finished call of a cleaning function.
CleanCall(op, text, c) ==
    [NoCall EXCEPT !.op = op, !.arg = text, !.outcome = "returned", !.path = "clean",
                   !.clean = c]

\* The cleaning function of the call c, on text, with NLTK as c met it.
CleanAs(c, text) ==
    CASE c.fn = "clean_text" -> CleanText(c.options, c.punkt, c.stemfault, text)
      [] c.fn = "preprocess_text" -> UtilPreprocessText(c.punkt, text)
      [] c.fn = "basic_clean" -> BasicClean(text)

\* The module's functions need no classifier and no file of resources/.
PreInit ==
    /\ Init
    /\ fs = [arch |-> "ok", width |-> Len(Categories), weights |-> "ok", tok |-> "ok"]

\* TextPreprocessor(...).clean_text(text)
CleanTextCall ==
    /\ pc = "idle"
    /\ last = NoCall
    /\ \E p \in Preprocessors, punkt \in PunktStates, stemfault \in StemFaults,
          text \in CleanTexts :
          last' = CleanCall("clean_text", text, CleanText(p, punkt, stemfault, text))
    /\ UNCHANGED <<fs, clf, cache, pc, req, loads, hist, prev>>

\* preprocess_text(text)
UtilPreprocessTextCall ==
    /\ pc = "idle"
    /\ last = NoCall
    /\ \E punkt \in PunktStates, text \in CleanTexts :
          last' = CleanCall("preprocess_text", text, UtilPreprocessText(punkt, text))
    /\ UNCHANGED <<fs, clf, cache, pc, req, loads, hist, prev>>

\* basic_clean(text)
BasicCleanCall ==
    /\ pc = "idle"
    /\ last = NoCall
    /\ \E text \in CleanTexts :
          last' = CleanCall("basic_clean", text, BasicClean(text))
    /\ UNCHANGED <<fs, clf, cache, pc, req, loads, hist, prev>>

\* The returned str is cleaned once more by the same function, NLTK's data
\* being what it was.
CleanAgainCall ==
    /\ pc = "idle"
    /\ last.op \in {"clean_text", "preprocess_text", "basic_clean"}
    /\ last.clean.pass = 1
    /\ LET text == PyStr(last.clean.out)
       IN last' = CleanCall(last.op, text, [CleanAs(last.clean, text) EXCEPT !.pass = 2])
    /\ UNCHANGED <<fs, clf, cache, pc, req, loads, hist, prev>>

PreNext ==
    \/ CleanTextCall
    \/ UtilPreprocessTextCall
    \/ BasicCleanCall
    \/ CleanAgainCall
    \/ Discard

\* The calls of the text preprocessing functions.
PreSpec == PreInit /\ [][PreNext]_vars

\* --------------------------------------------------------------- lifecycle

\* The constructor has returned and load_model holds its classifier.
Constructed == cache = "hit"

\* The classifier's lifecycle state: no object yet, inside the constructor,
\* or constructed with both the stored network and the stored vocabulary
\* (Ready) or with a fallback for either (Degraded).
State ==
    IF pc \in {"load_model", "load_tokenizer"} THEN "Loading"
    ELSE IF ~Constructed THEN "Uninitialized"
    ELSE IF clf.model.kind = "real" /\ clf.tokenizer.kind = "real" THEN "Ready"
    ELSE "Degraded"

\* ------------------------------------------------------------------ claims

\* The six fixed keys, from the configuration.
CategorySet == Range(TOXICITY_CATEGORIES)

\* A full six-key mapping with every value a probability.
WellFormed(d) ==
    /\ Len(d) = Cardinality(CategorySet)
    /\ Keys(d) = CategorySet
    /\ Values(d) \subseteq UnitInterval

\* The six-key mapping with the same score everywhere.
Uniform(score) == [i \in 1..Len(TOXICITY_CATEGORIES) |-> <<TOXICITY_CATEGORIES[i], score>>]

\* The last call was predict, directly or from the page.
LastIsPredict == last.op \in {"predict", "analyze"}

\* A str with a character that is not white space.
NonBlankStr(x) == IsStr(x) /\ \E i \in 1..Len(x.v) : x.v[i] \notin Whitespace
\* A str of white space only (the empty one too).
BlankStr(x) == IsStr(x) /\ \A i \in 1..Len(x.v) : x.v[i] \in Whitespace

\* C1: every mapping predict returns has exactly the six category keys and
\* every value in [0, 1], whatever the return path and the lifecycle state.
C1_PredictResultWellFormed ==
    (LastIsPredict /\ last.outcome = "returned") => WellFormed(last.value)

\* C1 witness: a network answer from a Degraded classifier.
C1_Witness ==
    /\ last.op = "predict"
    /\ last.path = "network"
    /\ State = "Degraded"
    /\ WellFormed(last.value)

\* C2: on a str, predict returns whatever goes wrong while encoding or in the
\* forward pass, and batch_predict over strs returns too.
C2_NoExceptionEscapesOnStrings ==
    /\ (LastIsPredict /\ IsStr(last.arg)) => last.outcome = "returned"
    /\ (last.op = "batch_predict" /\ \A i \in 1..Len(last.args) : IsStr(last.args[i]))
           => last.outcome = "returned"

\* C2 witness: the forward pass raised on a punctuation-only str and predict
\* returned.
C2_Witness ==
    /\ last.op = "predict"
    /\ last.arg = PyStr(<<"!", "?">>)
    /\ last.faults = <<"forward">>
    /\ last.outcome = "returned"

\* C3: predict on a value that is not a str returns the all-zero mapping
\* and raises nothing.
C3_NonStringIsAllZero ==
    (last.op = "predict" /\ ~IsStr(last.arg))
        => (last.outcome = "returned" /\ last.value = Uniform(0))

\* C4: for "", None and white-space-only strs predict returns the all-zero
\* mapping without calling the tokenizer or the network.
C4_BlankShortCircuits ==
    (LastIsPredict /\ (last.arg = PyNone \/ BlankStr(last.arg)))
        => /\ last.outcome = "returned"
           /\ last.value = Uniform(0)
           /\ last.tokenize = 0
           /\ last.forward = 0

\* C4 witness: predict on a single space.
C4_Witness ==
    /\ last.op = "predict"
    /\ last.arg = PyStr(<<" ">>)
    /\ last.value = Uniform(0)

\* An exception was raised inside the try block of the last predict: while
\* encoding, in the forward pass, or reading an output the network lacks.
RaisedInsideTry ==
    /\ LastIsPredict
    /\ NonBlankStr(last.arg)
    /\ \/ last.faults # <<"none">>
       \/ clf.model.width < Len(TOXICITY_CATEGORIES)

\* C5: an exception while encoding, in the forward pass or while reading the
\* outputs makes predict return 0.1 for each category; nothing is raised.
C5_ExceptionGivesUniformFallback ==
    RaisedInsideTry => (last.outcome = "returned" /\ last.value = Uniform(1))

\* C5 witness: the stored network has five outputs, reading the sixth raised.
C5_Witness ==
    /\ last.op = "predict"
    /\ last.faults = <<"none">>
    /\ NonBlankStr(last.arg)
    /\ clf.model.kind = "real"
    /\ clf.model.width < Len(TOXICITY_CATEGORIES)
    /\ last.value = Uniform(1)

\* Some artifact is absent or fails to load.
ArtifactTrouble == fs.arch # "ok" \/ fs.weights # "ok" \/ fs.tok # "ok"

\* C6: with any of the three files absent or failing to load the constructor
\* still ends with a model and a tokenizer, the fallback one where the file
\* failed, and predict on non-blank text then returns a well-formed mapping.
C6_ConstructsWithFallbacks ==
    (Constructed /\ ArtifactTrouble)
        => /\ clf.model # NoneObj
           /\ clf.tokenizer # NoneObj
           /\ (fs.arch # "ok" \/ fs.weights # "ok") => clf.model.kind = "dummy"
           /\ fs.tok # "ok" => clf.tokenizer.kind = "dummy"
           /\ (LastIsPredict /\ NonBlankStr(last.arg))
                  => (last.outcome = "returned" /\ WellFormed(last.value))

\* C6 witness: no architecture file and a tokenizer file that fails to load,
\* and predict answered through the fallback network.
C6_Witness ==
    /\ fs.arch = "absent"
    /\ fs.tok = "corrupt"
    /\ last.op = "predict"
    /\ NonBlankStr(last.arg)
    /\ last.path = "network"

\* The lifecycle's steps: Uninitialized to Loading, Loading to Ready or
\* Degraded, and no step out of Ready or Degraded.
LifecycleStep ==
    /\ State = "Uninitialized" => State' \in {"Uninitialized", "Loading"}
    /\ State = "Loading" => State' \in {"Loading", "Ready", "Degraded"}
    /\ State \in {"Ready", "Degraded"} => State' = State

\* C7: the lifecycle is Uninitialized, Loading, then Ready or Degraded;
\* construction always leaves Loading; it ends Degraded exactly when one of the
\* three artifacts is missing or fails to load; later calls never change it.
C7_Lifecycle ==
    /\ [][LifecycleStep]_vars
    /\ [](State \in {"Ready", "Degraded"} => (State = "Degraded" <=> ArtifactTrouble))
    /\ (State = "Loading" ~> State \in {"Ready", "Degraded"})

\* C7 witness: only the vocabulary is missing, the classifier is Degraded and
\* has served a predict call.
C7_Witness ==
    /\ fs.arch = "ok" /\ fs.weights = "ok" /\ fs.tok = "absent"
    /\ State = "Degraded"
    /\ last.op = "predict"

\* C8: get_model_info says whether the model and the vocabulary were loaded
\* from their artifacts (false for a fallback), with the category list,
\* max_features 20000 and max_length 100.
C8_InfoReportsLoaded ==
    last.op = "get_model_info"
        => /\ last.info.model_loaded = (clf.model.kind = "real")
           /\ last.info.tokenizer_loaded = (clf.tokenizer.kind = "real")
           /\ last.info.categories = TOXICITY_CATEGORIES
           /\ last.info.max_features = 20000
           /\ last.info.max_length = 100

\* C9: over any sequence of analysis requests, through the page and through
\* the legacy predict function, the artifacts are loaded at most once.
C9_LoadedAtMostOnce == loads <= 1

\* C10: batch_predict returns, for texts that are strs or None, a list as long
\* as texts whose i-th element is predict's answer for texts[i], each a
\* well-formed mapping; the empty list gives the empty list.
C10_BatchKeepsOrder ==
    last.op = "batch_predict"
        => /\ (\A i \in 1..Len(last.args) : IsStr(last.args[i]) \/ last.args[i] = PyNone)
                  => last.outcome = "returned"
           /\ last.outcome = "returned"
                  => /\ Len(last.values) = Len(last.args)
                     /\ \A i \in 1..Len(last.args) :
                           /\ last.values[i]
                                 = Predict(clf, last.args[i], last.faults[i], NoDraw).value
                           /\ WellFormed(last.values[i])

\* C10 witness: a batch of two texts with different answers, in order.
C10_Witness ==
    /\ last.op = "batch_predict"
    /\ last.outcome = "returned"
    /\ Len(last.args) = 2
    /\ Len(last.values) = 2
    /\ last.values[1] # last.values[2]

\* The last call encoded its text: preprocess_text ran to its end.
LastEncoded == last.enc # NoEnc

\* C11: preprocess_text always gives exactly max_len = 100 ids: fewer token
\* ids are padded at the front with 0, the ids keeping the last places in
\* order; more are cut to their last 100, in order.
C11_EncodingHasFixedLength ==
    LastEncoded =>
        LET ids == last.enc.ids
            out == last.enc.padded
            n == Len(ids)
        IN /\ Len(out) = 100
           /\ \A i \in 1..100 : out[i] \in Nat
           /\ (n <= 100) => (\A j \in 1..(100 - n) : out[j] = 0)
           /\ (n <= 100) => (\A j \in 1..n : out[100 - n + j] = ids[j])
           /\ (n > 100) => (\A j \in 1..100 : out[j] = ids[n - 100 + j])

\* C11 witness: 101 token ids, the first unlike the rest, cut to the last 100.
C11_Witness ==
    /\ last.op = "preprocess_text"
    /\ Len(last.enc.ids) = 101
    /\ last.enc.ids[1] # last.enc.ids[2]
    /\ Len(last.enc.padded) = 100
    /\ last.enc.padded[1] = last.enc.ids[2]

\* C12: in Ready, predict cleans the text as the production preprocessor does
\* before it encodes it: the tokenizer gets the same string for two texts that
\* differ only in letter case, and for two that differ only by a URL.
C12_PredictCleansBeforeEncoding ==
    (LastIsPredict /\ State = "Ready" /\ LastEncoded /\ IsStr(last.arg))
        => /\ last.enc.text = Encode(clf, PyStr(Lower(last.arg.v))).text
           /\ last.enc.text = Encode(clf, PyStr(RemoveUrls(Lower(last.arg.v)))).text

\* C13: with the vocabulary the classifier loaded, every encoding of a text
\* is the array its first encoding gave, whatever calls came in between.
C13_EncodingIsDeterministic ==
    (hist # NoHist /\ LastEncoded /\ last.op # "legacy_predict" /\ last.arg = WatchedText)
        => last.enc.padded = hist

\* C13 witness: predict encoded the text that preprocess_text had encoded in
\* an earlier call, to the same array.
C13_Witness ==
    /\ hist # NoHist
    /\ last.op = "predict"
    /\ last.arg = WatchedText
    /\ last.path = "network"
    /\ last.enc.padded = hist

\* The last call was one of preprocess_text and basic_clean.
LastIsCleaner == last.op \in {"preprocess_text", "basic_clean"} /\ last.path = "clean"

\* C14: preprocess_text and basic_clean take a value that is not a str
\* without raising, and clean its str() form: for None both return "none".
C14_NonStringIsCleanedAsItsStr ==
    (LastIsCleaner /\ ~IsStr(last.arg))
        => /\ last.outcome = "returned"
           /\ last.clean.out = CleanAs(last.clean, PyStr(last.arg.v)).out
           /\ last.arg = PyNone => last.clean.out = <<"n", "o", "n", "e">>

\* C14 witness: basic_clean(None) returned "none".
C14_Witness ==
    /\ last.op = "basic_clean"
    /\ last.arg = PyNone
    /\ last.clean.out = <<"n", "o", "n", "e">>

\* s holds the start of a URL.
HasUrl(s) ==
    \/ Contains(s, <<"h", "t", "t", "p", ":", "/", "/">>)
    \/ Contains(s, <<"h", "t", "t", "p", "s", ":", "/", "/">>)
    \/ Contains(s, <<"w", "w", "w", ".">>)

\* C15: what preprocess_text (default configuration) and basic_clean return
\* has no upper-case letter, no URL, no two spaces in a row and no white space
\* at either end.
C15_CleanedIsLowerNoUrlNoExtraSpace ==
    LastIsCleaner =>
        LET out == last.clean.out
        IN /\ \A i \in 1..Len(out) : out[i] \notin Range(UpperLetters)
           /\ ~HasUrl(out)
           /\ ~Contains(out, <<" ", " ">>)
           /\ \A i \in {1, Len(out)} \cap DOMAIN out : out[i] \notin Whitespace
           /\ \A i \in 1..Len(out) : out[i] \notin {"\t", "\n"}

\* C15 witness: "Visit https://example.com now" came back as "visit now".
C15_Witness ==
    /\ last.op = "preprocess_text"
    /\ HasUrl(Lower(last.arg.v))
    /\ \E i \in 1..Len(last.arg.v) : last.arg.v[i] \in Range(UpperLetters)
    /\ last.clean.out = <<"v", "i", "s", "i", "t", " ", "n", "o", "w">>

\* C16: cleaning what clean_text returned gives the same str again, with case
\* folding and white-space collapse only and with the production preprocessor.
C16_CleaningIsIdempotent ==
    (/\ last.op \in {"clean_text", "preprocess_text"}
     /\ last.clean.options \in {LowerCollapse, DefaultPreprocessor}
     /\ last.clean.pass = 2)
        => last.clean.out = last.arg.v

\* The last call was clean_text.
LastIsCleanText == last.op = "clean_text" /\ last.path = "clean"

\* C17: clean_text returns a str whatever the word tokenizer and the stemmer
\* raise: if word_tokenize fails the tokens are the white-space split of the
\* normalized text, if a stem() call fails no token is stemmed, and the join
\* and strip still run.
C17_TokenizeAndStemFallbacks ==
    LastIsCleanText =>
        LET c == last.clean
        IN /\ last.outcome = "returned"
           /\ c.punkt = "missing" => c.tokens = Split(c.normalized, Whitespace)
           /\ (c.options.stemming /\ c.stemfault \in 1..Len(c.filtered))
                  => c.stemmed = c.filtered
           /\ c.out = Strip(Join(c.stemmed, " "))

\* C17 witness: word_tokenize failed and stem() failed on the second token,
\* after a first token it would have changed.
C17_Witness ==
    /\ LastIsCleanText
    /\ last.clean.punkt = "missing"
    /\ last.clean.options.stemming
    /\ last.clean.stemfault = 2
    /\ Len(last.clean.filtered) >= 2
    /\ Stem(last.clean.filtered[1]) # last.clean.filtered[1]
    /\ last.clean.stemmed = last.clean.filtered
    /\ last.clean.out # <<>>

\* The number, in thousandths, that the text u.ddd stands for.
Thousandths(text) ==
    LET digit(c) == (CHOOSE k \in 1..10 : DigitChars[k] = c) - 1
    IN 1000 * digit(text[1]) + 100 * digit(text[3]) + 10 * digit(text[4]) + digit(text[5])

\* C18: the legacy predict(text) returns three lists of length six, aligned
\* by index: categories_list is the fixed category list, scores_list[i] the
\* score of categories_list[i], predictions_list[i] the text
\* "<category>: <score to 3 decimals>" of the same category.
C18_LegacyListsAligned ==
    (last.op = "legacy_predict" /\ last.outcome = "returned")
        => /\ Len(last.lists.predictions_list) = 6
           /\ Len(last.lists.scores_list) = 6
           /\ last.lists.categories_list = TOXICITY_CATEGORIES
           /\ \A i \in 1..6 :
                 LET text == last.lists.predictions_list[i]
                     score == last.lists.scores_list[i]
                 IN /\ <<last.lists.categories_list[i], score>> = last.value[i]
                    /\ Len(text) = 8
                    /\ SubSeq(text, 1, 3) = <<last.lists.categories_list[i], ":", " ">>
                    /\ text[5] = "."
                    /\ Thousandths(SubSeq(text, 4, 8)) = 100 * score

\* C18 witness: the legacy predict returned scores that are not all the same.
C18_Witness ==
    /\ last.op = "legacy_predict"
    /\ last.outcome = "returned"
    /\ last.lists.scores_list[1] < last.lists.scores_list[2]
    /\ last.lists.predictions_list[1] # last.lists.predictions_list[2]

\* C19: once constructed, and after any calls, the classifier's categories
\* are config.TOXICITY_CATEGORIES in order, max_len is 100 and max_features
\* 20000, as MODEL_CONFIG's max_length and max_features.
C19_FieldsMatchConfig ==
    Constructed
        => /\ clf.categories = TOXICITY_CATEGORIES
           /\ clf.max_len = 100
           /\ clf.max_len = MODEL_CONFIG.max_length
           /\ clf.max_features = 20000
           /\ clf.max_features = MODEL_CONFIG.max_features

\* C19 witness: batch_predict has returned after earlier calls of
\* preprocess_text, and the fields are the configured ones.
C19_Witness ==
    /\ Constructed
    /\ hist # NoHist
    /\ last.op = "batch_predict"
    /\ Len(last.args) = 2
    /\ clf.categories = TOXICITY_CATEGORIES
    /\ clf.max_len = 100
    /\ clf.max_features = 20000

\* C20: on the network path the score under categories[i] is the network's
\* i-th output, as it is; the page flags the text as toxic exactly when the
\* highest returned score is at or above the confidence threshold.
C20_ScoresAreOutputsThresholdOnPage ==
    /\ (LastIsPredict /\ last.path = "network")
           => \A i \in 1..6 :
                 last.value[i] = <<TOXICITY_CATEGORIES[i],
                                   Forward(clf.model, last.enc.padded)[i]>>
    /\ (last.op = "analyze" /\ last.outcome = "returned")
           => (last.flagged <=> \E i \in 1..Len(last.value) :
                                   last.value[i][2] >= last.threshold)

\* C20 witness: the page flagged a text whose highest score, a network
\* output that is neither 0 nor 1, is exactly the threshold.
C20_Witness ==
    /\ last.op = "analyze"
    /\ last.path = "network"
    /\ last.flagged
    /\ \A i \in 1..6 : last.value[i][2] <= last.threshold
    /\ \E i \in 1..6 : last.value[i][2] \notin {0, last.threshold}

\* A step in which preprocess_text, predict, batch_predict or get_model_info
\* is called on the constructed classifier and ends.
ClassifierCallEnds ==
    /\ last = NoCall
    /\ last'.op \in {"preprocess_text", "predict", "analyze", "batch_predict",
                     "get_model_info"}

\* The previous predict call on WatchedText went through the network, and
\* the last call is such a call again.
WatchedAgain ==
    /\ prev.path = "network"
    /\ last.op = "predict"
    /\ last.arg = WatchedText
    /\ last.path = "network"

\* C21: predict, batch_predict and get_model_info leave model, tokenizer,
\* categories, max_len and max_features as they were, whether the call
\* returned scores, short-circuited, fell back or raised; so a call's result
\* does not depend on the calls made before it.
C21_CallsLeaveClassifierUnchanged ==
    /\ [][ClassifierCallEnds => clf' = clf]_vars
    /\ [](WatchedAgain => last.value = prev.value)

\* C21 witness: after a predict call on WatchedText that went through the
\* network, a batch with a blank text and a failing forward pass has
\* returned, and the classifier holds a network and a vocabulary.
C21_Witness ==
    /\ prev.path = "network"
    /\ last.op = "batch_predict"
    /\ last.outcome = "returned"
    /\ \E i, j \in 1..Len(last.args) :
          /\ BlankStr(last.args[i])
          /\ last.faults[j] = "forward"
          /\ NonBlankStr(last.args[j])
    /\ clf.model # NoneObj
    /\ clf.tokenizer # NoneObj

\* C22: a failed inference is not retried and is not sticky: a predict call
\* on non-blank text runs the forward pass at most once; when it fails the
\* call returns 0.1 for each category; a predict call after a failed one
\* runs the forward pass again and, when nothing fails, returns the
\* network's outputs.
C22_NoRetryNotSticky ==
    /\ (LastIsPredict /\ NonBlankStr(last.arg))
           => /\ last.forward <= 1
              /\ last.tokenize <= 1
              /\ (last.faults = <<"forward">>)
                    => /\ last.forward = 1
                       /\ last.outcome = "returned"
                       /\ \A i \in 1..6 : last.value[i] = <<TOXICITY_CATEGORIES[i], 1>>
    /\ (prev.path = "fallback" /\ last.op = "predict" /\ NonBlankStr(last.arg))
           => /\ (last.faults # <<"encode">>) => last.forward = 1
              /\ (last.faults = <<"none">> /\ clf.model.width >= 6)
                    => /\ last.path = "network"
                       /\ \A i \in 1..6 :
                             last.value[i][2] = Forward(clf.model, last.enc.padded)[i]

\* C22 witness: the previous predict call on WatchedText fell back to 0.1,
\* and the call after it ran the forward pass once and returned other
\* scores, the network's.
C22_Witness ==
    /\ prev.path = "fallback"
    /\ \A i \in 1..6 : prev.value[i][2] = 1
    /\ last.op = "predict"
    /\ last.arg = WatchedText
    /\ last.path = "network"
    /\ last.forward = 1
    /\ last.value # prev.value

\* C23: a constructed classifier holds a model and a tokenizer (stored or
\* fallback), so no call answers with random.uniform draws; with the
\* fallback network a predict call in which nothing fails answers with that
\* network's outputs, and in the Degraded state a repeated predict call on
\* the same text returns the same scores.
C23_RandomBranchUnreachable ==
    /\ Constructed => (clf.model # NoneObj /\ clf.tokenizer # NoneObj)
    /\ last.path # "random"
    /\ (/\ Constructed
        /\ clf.model.kind = "dummy"
        /\ LastIsPredict
        /\ NonBlankStr(last.arg)
        /\ last.faults = <<"none">>)
           => /\ last.path = "network"
              /\ \A i \in 1..6 :
                    last.value[i] = <<TOXICITY_CATEGORIES[i],
                                      Forward(clf.model, last.enc.padded)[i]>>
    /\ (State = "Degraded" /\ WatchedAgain) => last.value = prev.value

\* C23 witness: with the fallback network, a second predict call on
\* WatchedText went through the network like the first and returned the
\* same scores, which are not all alike.
C23_Witness ==
    /\ State = "Degraded"
    /\ clf.model.kind = "dummy"
    /\ WatchedAgain
    /\ last.value = prev.value
    /\ \E i, j \in 1..6 : last.value[i][2] # last.value[j][2]
====
